---- MODULE Spec2Model ----
(***************************************************************************)
(* DeepClaude: one chat_completions_with_stream request.                   *)
(*                                                                         *)
(* Two asyncio tasks (process_deepseek, process_claude) and the            *)
(* coordinator's drain loop share an unbounded output_queue and an         *)
(* unbounded claude_queue (the handoff channel).  asyncio is cooperative:  *)
(* a task runs without interruption between two real suspension points.    *)
(* put() on an unbounded asyncio.Queue never suspends, so the only         *)
(* suspension points are: waiting for the next transport chunk, get() on   *)
(* an empty queue, and awaiting a task.  Each action below is one such     *)
(* uninterrupted run.                                                      *)
(*                                                                         *)
(* The caller of the generator takes each frame and asks for the next one  *)
(* (Spec); while it holds a frame the generator is suspended at a yield,   *)
(* still inside the timeout scope.  SpecAbort also lets the caller stop    *)
(* the generator early.                                                    *)
(*                                                                         *)
(* Text is a sequence of tokens; "" is << >>, "+"/join is \o, and          *)
(* '"<think>" in s' is membership of the token in the sequence.            *)
(***************************************************************************)
EXTENDS Integers, Sequences, FiniteSets, TLC

\* ---- bounds ------------------------------------------------------------
MaxChunks == 2      \* transport chunks delivered per provider stream
MaxLines == 2       \* lines per DeepSeek transport chunk
MaxClaudeLines == 2 \* lines per Claude transport chunk
MaxMessages == 2    \* length of the caller's message list

\* ---- text --------------------------------------------------------------
OpenMarker == "<think>"
CloseMarker == "</think>"

Contains(text, tok) == \E i \in 1..Len(text) : text[i] = tok

\* Variant: " ".join(list)
RECURSIVE JoinWithSeparator(_)
JoinWithSeparator(list) ==
    IF list = << >> THEN << >>
    ELSE IF Len(list) = 1 THEN Head(list)
    ELSE Head(list) \o <<" ">> \o JoinWithSeparator(Tail(list))

\* "".join(list)
RECURSIVE Join(_)
Join(list) == IF list = << >> THEN << >> ELSE Head(list) \o Join(Tail(list))

\* An optional JSON field: {} is absent/null, {t} is the string t.
Absent == {}
Truthy(field) == field # {} /\ field # {<< >>}
Value(field) == CHOOSE t \in field : TRUE

\* ---- inputs ------------------------------------------------------------
Roles == {"system", "user"}
\* The caller's i-th message: its text is told from the others' by its length.
Message(role, i) == [role |-> role, content |-> [k \in 1..i |-> "q"]]
MessageLists ==
    UNION {{[i \in 1..n |-> Message(roles[i], i)] : roles \in [1..n -> Roles]} :
           n \in 1..MaxMessages}

ReasonerModel == "deepseek-reasoner"
DeepseekModels == {ReasonerModel, "deepseek-chat"}
ClaudeModel == "claude-3-5-sonnet-20241022"

DefaultTimeout == 300
Timeouts == {0, DefaultTimeout}

\* Lines of a DeepSeek transport chunk.
DoneLine == [t |-> "done", rc |-> Absent, c |-> Absent]
BadLine == [t |-> "bad", rc |-> Absent, c |-> Absent]
Delta(rc, c) == [t |-> "delta", rc |-> rc, c |-> c]
DeepseekLines ==
    {DoneLine, BadLine}
    \cup {Delta(rc, c) : rc \in {Absent, {<<"r">>}},
                         c \in {Absent, {<<OpenMarker>>}, {<<"4">>}, {<<CloseMarker>>}}}
DeepseekChunks == UNION {[1..n -> DeepseekLines] : n \in 0..MaxLines}

\* Lines of a Claude transport chunk.
ClaudeLines == {DoneLine, BadLine, Delta(Absent, {<< >>}), Delta(Absent, {<<"A">>})}
ClaudeChunks == UNION {[1..n -> ClaudeLines] : n \in 0..MaxClaudeLines}

\* ---- frames and queue items ---------------------------------------------
Event(kind, text) == [kind |-> kind, text |-> text]
\* f"data: {json.dumps(response)}\n\n" with delta.reasoning_content = delta.content = text
ReasoningEnvelope(model, text) == [type |-> "reasoning", model |-> model, text |-> text]
\* f"data: {json.dumps(response)}\n\n" with delta.content = text only
AnswerEnvelope(model, text) == [type |-> "answer", model |-> model, text |-> text]
NoneItem == [type |-> "None", model |-> "", text |-> << >>]
ErrorFrame == [type |-> "error", model |-> "", text |-> <<"Operation timeout">>]
DoneFrame == [type |-> "[DONE]", model |-> "", text |-> << >>]

IsEnvelope(item) == item.type \in {"reasoning", "answer"}

VARIABLES
    messages,            \* the caller's message list
    deepseek_model,
    timeout,
    output_queue,        \* asyncio.Queue[bytes | None]
    claude_queue,        \* asyncio.Queue[str]
    reasoning_content,   \* list[str]
    is_collecting_think, \* DeepSeekClient.stream_chat local
    has_yielded_content, \* DeepSeekClient.stream_chat local
    ds_pc,               \* process_deepseek: "stream" | "done"
    ds_exit,             \* how process_deepseek left its try block: "" (not yet) |
                         \*   "break" | "exhausted" | "exception" | "cancelled"
    ds_events,           \* history: the events stream_chat yielded to process_deepseek
    ds_cancel,           \* deepseek_task.cancel() requested, not yet delivered
    ds_chunks,           \* chunks the DeepSeek transport has delivered
    cl_pc,               \* process_claude: "get" | "stream" | "done"
    cl_exit,             \* how process_claude left its try block: "" (not yet) |
                         \*   "exhausted" | "exception" | "cancelled"
    cl_cancel,           \* claude_task.cancel() requested, not yet delivered
    cl_chunks,           \* chunks the Claude transport has delivered
    claude_messages,     \* argument of claude_client.stream_chat
    co_pc,               \* coordinator: "drain" (at output_queue.get()) |
                         \*   "yield_item" | "yield_done" (suspended at a yield inside
                         \*   the timeout scope) | "timeout" | "finally" |
                         \*   "await_deepseek" | "await_claude" | "returned"
    finished_tasks,
    timer,               \* asyncio.timeout: "due" | "armed" | "off" | "expired" (fired at
                         \*   a yield: the caller's task has a cancellation pending) |
                         \*   "expiring" (fired at a yield, the caller caught the
                         \*   CancelledError and called Task.uncancel(): the scope is
                         \*   EXPIRING with no cancel request counted) | "spent"
                         \*   (fired at a yield; the caller carried on without
                         \*   uncancel(), or the scope was left)
    timed_out,           \* history: the TimeoutError handler was entered
    deadline_at,         \* history: where the deadline fired: "" (not yet) | "get" |
                         \*   "yield_item" | "yield_done"
    emitted,             \* frames yielded to the caller, in order
    handoff_log,         \* history: every value put on claude_queue
    handoff_reads,       \* history: number of claude_queue.get() returns
    claude_calls,        \* history: number of claude_client.stream_chat calls
    sink_log,            \* history: every item put on output_queue, with its writer
    dec                  \* a stream_chat generator driven on its own (SpecDecoder)

vars == <<messages, deepseek_model, timeout, output_queue, claude_queue,
          reasoning_content, is_collecting_think, has_yielded_content,
          ds_pc, ds_exit, ds_events, ds_cancel, ds_chunks,
          cl_pc, cl_exit, cl_cancel, cl_chunks,
          claude_messages, co_pc, finished_tasks, timer, timed_out, deadline_at, emitted,
          handoff_log, handoff_reads, claude_calls, sink_log, dec>>

\* ---- DeepSeekClient.stream_chat: one line of a chunk ---------------------
\* The events one "data: " line yields, the decoder flags after it, and how
\* control leaves the line: "next" (next line), "return" ([DONE] seen) or
\* "raise" (json.loads failed: caught by the chunk-level except).
\* accumulated_content is only ever written, so it is left out.
DeepseekLineEvents(line, model, ict, hyc) ==
    IF line.t = "done" THEN
        [events |-> IF ~hyc THEN <<Event("content", << >>)>> ELSE << >>,
         ict |-> ict, hyc |-> hyc, ctl |-> "return"]
    ELSE IF line.t = "bad" THEN
        [events |-> << >>, ict |-> ict, hyc |-> hyc, ctl |-> "raise"]
    ELSE IF model = ReasonerModel THEN
        LET r == IF Truthy(line.rc) THEN <<Event("reasoning", Value(line.rc))>> ELSE << >>
            isContent == line.rc = Absent /\ Truthy(line.c)
            c == IF isContent THEN <<Event("content", Value(line.c))>> ELSE << >>
        IN [events |-> r \o c, ict |-> ict, hyc |-> (hyc \/ isContent), ctl |-> "next"]
    ELSE IF ~Truthy(line.c) THEN
        [events |-> << >>, ict |-> ict, hyc |-> hyc, ctl |-> "next"]
    ELSE LET content == Value(line.c) IN
        IF Contains(content, OpenMarker) /\ ~ict THEN
            [events |-> <<Event("reasoning", content)>>,
             ict |-> TRUE, hyc |-> hyc, ctl |-> "next"]
        ELSE IF ict THEN
            IF Contains(content, CloseMarker) THEN
                [events |-> <<Event("reasoning", content), Event("content", << >>)>>,
                 ict |-> FALSE, hyc |-> TRUE, ctl |-> "next"]
            ELSE
                [events |-> <<Event("reasoning", content)>>,
                 ict |-> ict, hyc |-> hyc, ctl |-> "next"]
        ELSE
            [events |-> <<Event("content", content)>>,
             ict |-> ict, hyc |-> TRUE, ctl |-> "next"]

\* Variant: the code after the loop does not test has_yielded_content.
DeepseekEndEventsAlways(hyc) == <<Event("content", << >>)>>

\* The events the generator yields after the transport is exhausted.
DeepseekEndEvents(hyc) == IF ~hyc THEN <<Event("content", << >>)>> ELSE << >>

\* ---- process_deepseek: the body of the async for -------------------------
\* 'if not content: continue'
SkipEvent(ev) == ev.text = << >>

\* Variant: the content branch also relays the provider's own answer text to
\* the caller, as an answer envelope, and reads on.
RECURSIVE ProcessDeepseekEventsRelayContent(_, _, _, _)
ProcessDeepseekEventsRelayContent(events, model, rc, out) ==
    IF events = << >> THEN
        [rc |-> rc, out |-> out, handoff |-> << >>, brk |-> FALSE, seen |-> << >>]
    ELSE LET ev == Head(events)
             rest == IF SkipEvent(ev) THEN
                         ProcessDeepseekEventsRelayContent(Tail(events), model, rc, out)
                     ELSE IF ev.kind = "reasoning" THEN
                         ProcessDeepseekEventsRelayContent(
                             Tail(events), model, Append(rc, ev.text),
                             Append(out, ReasoningEnvelope(model, ev.text)))
                     ELSE IF ev.kind = "content" THEN
                         LET r == ProcessDeepseekEventsRelayContent(
                                      Tail(events), model, rc,
                                      Append(out, AnswerEnvelope(model, ev.text)))
                         IN [r EXCEPT !.handoff = <<Join(rc)>> \o @]
                     ELSE
                         ProcessDeepseekEventsRelayContent(Tail(events), model, rc, out)
         IN [rest EXCEPT !.seen = <<ev>> \o @]

\* Variant: the content branch hands off but does not 'break'.
RECURSIVE ProcessDeepseekEventsNoBreak(_, _, _, _)
ProcessDeepseekEventsNoBreak(events, model, rc, out) ==
    IF events = << >> THEN
        [rc |-> rc, out |-> out, handoff |-> << >>, brk |-> FALSE, seen |-> << >>]
    ELSE LET ev == Head(events)
             rest == IF SkipEvent(ev) THEN
                         ProcessDeepseekEventsNoBreak(Tail(events), model, rc, out)
                     ELSE IF ev.kind = "reasoning" THEN
                         ProcessDeepseekEventsNoBreak(Tail(events), model, Append(rc, ev.text),
                                                      Append(out, ReasoningEnvelope(model, ev.text)))
                     ELSE IF ev.kind = "content" THEN
                         LET r == ProcessDeepseekEventsNoBreak(Tail(events), model, rc, out)
                         IN [r EXCEPT !.handoff = <<Join(rc)>> \o @]
                     ELSE
                         ProcessDeepseekEventsNoBreak(Tail(events), model, rc, out)
         IN [rest EXCEPT !.seen = <<ev>> \o @]

\* Consumes events in order until the loop breaks.  rc is reasoning_content,
\* out the envelopes put on output_queue, handoff the values put on
\* claude_queue, brk whether the loop was left by 'break', seen the events
\* consumed.
RECURSIVE ProcessDeepseekEvents(_, _, _, _)
ProcessDeepseekEvents(events, model, rc, out) ==
    IF events = << >> THEN
        [rc |-> rc, out |-> out, handoff |-> << >>, brk |-> FALSE, seen |-> << >>]
    ELSE LET ev == Head(events)
             rest == IF SkipEvent(ev) THEN
                         ProcessDeepseekEvents(Tail(events), model, rc, out)
                     ELSE IF ev.kind = "reasoning" THEN
                         ProcessDeepseekEvents(Tail(events), model, Append(rc, ev.text),
                                               Append(out, ReasoningEnvelope(model, ev.text)))
                     ELSE IF ev.kind = "content" THEN
                         [rc |-> rc, out |-> out, handoff |-> <<Join(rc)>>,
                          brk |-> TRUE, seen |-> << >>]
                     ELSE
                         ProcessDeepseekEvents(Tail(events), model, rc, out)
         IN [rest EXCEPT !.seen = <<ev>> \o @]

\* process_deepseek driving stream_chat over the lines of one chunk.
\* s.ctl: "next" (wait for the next chunk), "break" (loop left by break),
\* "return" (generator returned: the async for is exhausted).
RECURSIVE RunDeepseekChunk(_, _, _)
RunDeepseekChunk(lines, model, s) ==
    IF lines = << >> THEN s
    ELSE LET le == DeepseekLineEvents(Head(lines), model, s.ict, s.hyc)
             pe == ProcessDeepseekEvents(le.events, model, s.rc, s.out)
             s1 == [ict |-> le.ict, hyc |-> le.hyc, rc |-> pe.rc, out |-> pe.out,
                    handoff |-> s.handoff \o pe.handoff,
                    seen |-> s.seen \o pe.seen,
                    ctl |-> IF pe.brk THEN "break"
                            ELSE IF le.ctl = "return" THEN "return" ELSE "next"]
         IN IF pe.brk \/ le.ctl # "next" THEN s1
            ELSE RunDeepseekChunk(Tail(lines), model, s1)

\* Variant: the callback of an expired deadline is not queued ahead of the
\* drain loop's wake-ups.
InitialTimerArmed(t) == "armed"

\* 'async with asyncio.timeout(timeout)': a deadline that has already passed
\* queues its callback at once (call_soon), ahead of every later wake-up.
InitialTimer(t) == IF t = 0 THEN "due" ELSE "armed"

\* Variant: the task swallows CancelledError and carries on.
RunnableIgnoringCancel(pc, at, cancel) == pc = at

\* A task runs on from its suspension point unless cancel() was called on it:
\* then CancelledError is thrown in instead, and the handlers re-raise it.
Runnable(pc, at, cancel) == pc = at /\ ~cancel

\* Variant: every task is taken to be done (no cancel, no await).
TaskDoneAlways(pc) == TRUE

\* task.done()
TaskDone(pc) == pc = "done"

SinkWrites(writer, items) == [i \in 1..Len(items) |-> [writer |-> writer, item |-> items[i]]]

\* A stream_chat generator before its first chunk.  client is "deepseek",
\* "claude" or "none" (no generator is driven on its own); fed is the chunks
\* received, yielded the events yielded, body the number of events yielded
\* before the stream's end was handled, marks the marker state before and
\* after each delta the marker branch handled.
DecoderStart(client) ==
    [client |-> client, fed |-> << >>, yielded |-> << >>,
     is_collecting_think |-> FALSE, has_yielded_content |-> FALSE,
     returned |-> FALSE, body |-> 0, marks |-> << >>]

InitRequest ==
    /\ messages \in MessageLists
    /\ deepseek_model \in DeepseekModels
    /\ timeout \in Timeouts
    /\ output_queue = << >>
    /\ claude_queue = << >>
    /\ reasoning_content = << >>
    /\ is_collecting_think = FALSE
    /\ has_yielded_content = FALSE
    /\ ds_pc = "stream"
    /\ ds_exit = ""
    /\ ds_events = << >>
    /\ ds_cancel = FALSE
    /\ ds_chunks = 0
    /\ cl_pc = "get"
    /\ cl_exit = ""
    /\ cl_cancel = FALSE
    /\ cl_chunks = 0
    /\ claude_messages = << >>
    /\ co_pc = "drain"
    /\ finished_tasks = 0
    /\ timer = InitialTimer(timeout)
    /\ timed_out = FALSE
    /\ deadline_at = ""
    /\ emitted = << >>
    /\ handoff_log = << >>
    /\ handoff_reads = 0
    /\ claude_calls = 0
    /\ sink_log = << >>

Init == InitRequest /\ dec = DecoderStart("none")

\* The request's arguments, and dec (which belongs to SpecDecoder).
inputVars == <<messages, deepseek_model, timeout, dec>>
claudeVars == <<cl_pc, cl_exit, cl_cancel, cl_chunks, claude_messages,
               handoff_reads, claude_calls>>
coordVars == <<co_pc, finished_tasks, timer, timed_out, deadline_at, emitted>>

\* ---- process_deepseek ----------------------------------------------------
\* The task leaves the try block: 'finally: await output_queue.put(None)'.
\* Variant: the finally block also puts "" on claude_queue.
DeepseekStepHandoffInFinally(out, handoff, exit) ==
    LET puts == out \o (IF exit # "" THEN <<NoneItem>> ELSE << >>)
        hand == handoff \o (IF exit # "" THEN <<<< >>>> ELSE << >>)
    IN
    /\ output_queue' = output_queue \o puts
    /\ sink_log' = sink_log \o SinkWrites("deepseek", puts)
    /\ claude_queue' = claude_queue \o hand
    /\ handoff_log' = handoff_log \o hand
    /\ ds_pc' = IF exit # "" THEN "done" ELSE "stream"
    /\ ds_exit' = exit

\* exit is "" while the task stays in its loop.
DeepseekStep(out, handoff, exit) ==
    LET puts == out \o (IF exit # "" THEN <<NoneItem>> ELSE << >>) IN
    /\ output_queue' = output_queue \o puts
    /\ sink_log' = sink_log \o SinkWrites("deepseek", puts)
    /\ claude_queue' = claude_queue \o handoff
    /\ handoff_log' = handoff_log \o handoff
    /\ ds_pc' = IF exit # "" THEN "done" ELSE "stream"
    /\ ds_exit' = exit

\* The transport delivers one chunk; stream_chat decodes it line by line and
\* process_deepseek handles each event as it is yielded.
DeepseekChunk(chunk) ==
    /\ Runnable(ds_pc, "stream", ds_cancel)
    /\ ds_chunks < MaxChunks
    /\ LET s == RunDeepseekChunk(chunk, deepseek_model,
                    [ict |-> is_collecting_think, hyc |-> has_yielded_content,
                     rc |-> reasoning_content, out |-> << >>, handoff |-> << >>,
                     seen |-> << >>, ctl |-> "next"])
       IN /\ is_collecting_think' = s.ict
          /\ has_yielded_content' = s.hyc
          /\ reasoning_content' = s.rc
          /\ ds_events' = ds_events \o s.seen
          /\ DeepseekStep(s.out, s.handoff,
                          IF s.ctl = "break" THEN "break"
                          ELSE IF s.ctl = "return" THEN "exhausted" ELSE "")
    /\ ds_chunks' = ds_chunks + 1
    /\ UNCHANGED <<inputVars, claudeVars, coordVars, ds_cancel>>

\* The transport's chunk sequence ends without a [DONE] line.
DeepseekStreamEnd ==
    /\ Runnable(ds_pc, "stream", ds_cancel)
    /\ LET pe == ProcessDeepseekEvents(DeepseekEndEvents(has_yielded_content),
                                       deepseek_model, reasoning_content, << >>)
       IN /\ reasoning_content' = pe.rc
          /\ ds_events' = ds_events \o pe.seen
          /\ DeepseekStep(pe.out, pe.handoff, IF pe.brk THEN "break" ELSE "exhausted")
    /\ UNCHANGED <<inputVars, claudeVars, coordVars, ds_cancel, ds_chunks,
                   is_collecting_think, has_yielded_content>>

\* An exception leaves stream_chat (transport error, chunk.decode):
\* 'except Exception: await claude_queue.put("")'.
DeepseekStreamRaise ==
    /\ Runnable(ds_pc, "stream", ds_cancel)
    /\ DeepseekStep(<< >>, <<<< >>>>, "exception")
    /\ UNCHANGED <<inputVars, claudeVars, coordVars, ds_cancel, ds_chunks, ds_events,
                   reasoning_content, is_collecting_think, has_yielded_content>>

\* CancelledError is thrown into the task at its suspension point:
\* 'except asyncio.CancelledError: raise', then the finally block.
DeepseekCancelled ==
    /\ ds_pc = "stream" /\ ds_cancel
    /\ DeepseekStep(<< >>, << >>, "cancelled")
    /\ ds_cancel' = FALSE
    /\ UNCHANGED <<inputVars, claudeVars, coordVars, ds_chunks, ds_events,
                   reasoning_content, is_collecting_think, has_yielded_content>>

\* ---- ClaudeClient.stream_chat: one chunk ---------------------------------
\* Variant: json.loads is guarded by a try around the whole chunk, so a
\* rejected line leaves the loop over the chunk's lines.
ClaudeLineEventsChunkTry(line) ==
    IF line.t = "done" THEN [events |-> << >>, ctl |-> "return"]
    ELSE IF line.t = "bad" THEN [events |-> << >>, ctl |-> "raise"]
    ELSE [events |-> IF Truthy(line.c) THEN <<Event("answer", Value(line.c))>> ELSE << >>,
          ctl |-> "next"]

\* The events one line yields and how control leaves it: "next" or "return"
\* ([DONE] seen).  A line json.loads rejects is skipped by the line's own
\* 'except json.JSONDecodeError: continue'.
ClaudeLineEvents(line) ==
    IF line.t = "done" THEN [events |-> << >>, ctl |-> "return"]
    ELSE IF line.t = "bad" THEN [events |-> << >>, ctl |-> "next"]
    ELSE [events |-> IF Truthy(line.c) THEN <<Event("answer", Value(line.c))>> ELSE << >>,
          ctl |-> "next"]

\* ---- process_claude: the body of the async for ---------------------------
RECURSIVE ProcessClaudeEvents(_, _, _)
ProcessClaudeEvents(events, model, out) ==
    IF events = << >> THEN out
    ELSE LET ev == Head(events) IN
        IF SkipEvent(ev) THEN ProcessClaudeEvents(Tail(events), model, out)
        ELSE IF ev.kind = "answer" THEN
            ProcessClaudeEvents(Tail(events), model, Append(out, AnswerEnvelope(model, ev.text)))
        ELSE ProcessClaudeEvents(Tail(events), model, out)

RECURSIVE RunClaudeChunk(_, _)
RunClaudeChunk(lines, s) ==
    IF lines = << >> THEN s
    ELSE LET le == ClaudeLineEvents(Head(lines))
             s1 == [out |-> ProcessClaudeEvents(le.events, ClaudeModel, s.out),
                    ctl |-> le.ctl]
         IN IF le.ctl # "next" THEN s1 ELSE RunClaudeChunk(Tail(lines), s1)

\* ---- process_claude: the forwarded message list --------------------------
NonSystem(msgs) == SelectSeq(msgs, LAMBDA m : m.role # "system")

SyntheticMessage(reasoning) ==
    [role |-> "assistant",
     content |-> <<"Here's my reasoning process:\n">> \o reasoning
                 \o <<"\n\nBased on this reasoning, I will now provide my response:">>]

ClaudeMessages(msgs, reasoning) ==
    IF reasoning = << >> THEN NonSystem(msgs)
    ELSE NonSystem(Append(msgs, SyntheticMessage(reasoning)))

\* Variant: no 'messages.copy()', the synthetic message is appended to the
\* caller's list.
BuildClaudeMessagesInPlace(msgs, reasoning) ==
    [forwarded |-> ClaudeMessages(msgs, reasoning),
     original |-> IF reasoning = << >> THEN msgs
                  ELSE Append(msgs, SyntheticMessage(reasoning))]

\* Lines 92-101: the list handed to claude_client.stream_chat, and the
\* caller's list afterwards (the append goes to a copy).
BuildClaudeMessages(msgs, reasoning) ==
    [forwarded |-> ClaudeMessages(msgs, reasoning), original |-> msgs]

\* 'reasoning = await claude_queue.get()': suspended while the queue is empty.
HandoffGet(queue) ==
    [ready |-> queue # << >>,
     value |-> IF queue = << >> THEN << >> ELSE Head(queue),
     rest |-> IF queue = << >> THEN << >> ELSE Tail(queue)]

\* The task leaves the try block: 'finally: await output_queue.put(None)'.
\* Variant: the marker is put by the normal and the exception exit only, a
\* cancelled task puts nothing.
ClaudeStepNoMarkerOnCancel(out, exit) ==
    LET puts == out \o (IF exit \notin {"", "cancelled"} THEN <<NoneItem>> ELSE << >>) IN
    /\ output_queue' = output_queue \o puts
    /\ sink_log' = sink_log \o SinkWrites("claude", puts)
    /\ cl_pc' = IF exit # "" THEN "done" ELSE "stream"
    /\ cl_exit' = exit

\* exit is "" while the task stays in its loop.
ClaudeStep(out, exit) ==
    LET puts == out \o (IF exit # "" THEN <<NoneItem>> ELSE << >>) IN
    /\ output_queue' = output_queue \o puts
    /\ sink_log' = sink_log \o SinkWrites("claude", puts)
    /\ cl_pc' = IF exit # "" THEN "done" ELSE "stream"
    /\ cl_exit' = exit

deepseekVars == <<ds_pc, ds_exit, ds_events, ds_cancel, ds_chunks, reasoning_content,
                  is_collecting_think, has_yielded_content, handoff_log>>

\* claude_queue.get() returns; the message list is built and
\* claude_client.stream_chat is called (it suspends on its first chunk).
ClaudeGetHandoff ==
    /\ Runnable(cl_pc, "get", cl_cancel)
    /\ LET g == HandoffGet(claude_queue) IN
        /\ g.ready
        /\ claude_queue' = g.rest
        /\ LET b == BuildClaudeMessages(messages, g.value) IN
            /\ claude_messages' = b.forwarded
            /\ messages' = b.original
    /\ cl_pc' = "stream"
    /\ handoff_reads' = handoff_reads + 1
    /\ claude_calls' = claude_calls + 1
    /\ UNCHANGED <<deepseek_model, timeout, dec, deepseekVars, coordVars, cl_exit, cl_cancel, cl_chunks,
                   output_queue, sink_log>>

ClaudeChunk(chunk) ==
    /\ Runnable(cl_pc, "stream", cl_cancel)
    /\ cl_chunks < MaxChunks
    /\ LET s == RunClaudeChunk(chunk, [out |-> << >>, ctl |-> "next"])
       IN ClaudeStep(s.out, IF s.ctl = "return" THEN "exhausted" ELSE "")
    /\ cl_chunks' = cl_chunks + 1
    /\ UNCHANGED <<inputVars, deepseekVars, coordVars, cl_cancel, claude_queue,
                   claude_messages, handoff_reads, claude_calls>>

\* The transport's chunk sequence ends without a [DONE] line.
ClaudeStreamEnd ==
    /\ Runnable(cl_pc, "stream", cl_cancel)
    /\ ClaudeStep(<< >>, "exhausted")
    /\ UNCHANGED <<inputVars, deepseekVars, coordVars, cl_cancel, cl_chunks,
                   claude_queue, claude_messages, handoff_reads, claude_calls>>

\* An exception leaves stream_chat: 'except Exception' logs it.
ClaudeStreamRaise ==
    /\ Runnable(cl_pc, "stream", cl_cancel)
    /\ ClaudeStep(<< >>, "exception")
    /\ UNCHANGED <<inputVars, deepseekVars, coordVars, cl_cancel, cl_chunks,
                   claude_queue, claude_messages, handoff_reads, claude_calls>>

\* CancelledError is thrown into the task, blocked on claude_queue.get() or
\* on the transport: 'except asyncio.CancelledError: raise', then finally.
ClaudeCancelled ==
    /\ cl_pc # "done" /\ cl_cancel
    /\ ClaudeStep(<< >>, "cancelled")
    /\ cl_cancel' = FALSE
    /\ UNCHANGED <<inputVars, deepseekVars, coordVars, cl_chunks,
                   claude_queue, claude_messages, handoff_reads, claude_calls>>

\* ---- chat_completions_with_stream: the coordinator -----------------------
taskVars == <<ds_pc, ds_exit, ds_events, ds_chunks, reasoning_content,
              is_collecting_think, has_yielded_content, handoff_log,
              cl_pc, cl_exit, cl_chunks, claude_messages,
              handoff_reads, claude_calls, claude_queue, sink_log>>

\* task.cancel(): a no-op on a task that is done.
CancelRequest(pc, pending) == pending \/ ~TaskDone(pc)

\* Variant: the loop ends at the first completion marker.
DrainContinuesUntilOne(n) == n < 1

\* 'while finished_tasks < 2'
DrainContinues(n) == n < 2

\* 'item = await output_queue.get()' and the loop body up to the next
\* suspension: the next get(), 'yield item' or, after the loop,
\* 'yield [DONE]'.  Both yields are inside 'async with asyncio.timeout', so
\* the timer stays armed while the caller holds the frame.  The timeout
\* callback of a deadline of 0 is queued (call_soon) before any wake-up of
\* this get(), so it runs first.
Drain ==
    /\ co_pc = "drain" /\ timer # "due"
    /\ output_queue # << >>
    /\ LET item == Head(output_queue) IN
        /\ output_queue' = Tail(output_queue)
        /\ IF item = NoneItem
           THEN /\ finished_tasks' = finished_tasks + 1
                /\ IF DrainContinues(finished_tasks + 1)
                   THEN UNCHANGED <<emitted, co_pc>>
                   ELSE /\ emitted' = Append(emitted, DoneFrame)
                        /\ co_pc' = "yield_done"
           ELSE /\ emitted' = Append(emitted, item)
                /\ co_pc' = "yield_item"
                /\ UNCHANGED finished_tasks
    /\ UNCHANGED <<inputVars, taskVars, ds_cancel, cl_cancel, timer, timed_out,
                   deadline_at>>

\* The caller asks for the next frame (__anext__): the generator runs on from
\* its yield, to the next get() or out of the timeout scope (__aexit__
\* without an exception raises nothing, whatever the timer's state).  A
\* caller whose task was cancelled by the deadline gets here only by catching
\* the CancelledError, with or without Task.uncancel().  The one-shot timer
\* is gone then, but back at get() the scope is still EXPIRING: after
\* uncancel() ("expiring") a later CancelledError there leaves the scope as
\* TimeoutError, without it ("spent") the earlier cancel request is still
\* counted and __aexit__ lets the CancelledError through.
CallerResumes ==
    /\ co_pc \in {"yield_item", "yield_done"}
    /\ co_pc' = IF co_pc = "yield_item" THEN "drain" ELSE "finally"
    /\ timer' \in IF co_pc = "yield_item"
                   THEN IF timer = "expired" THEN {"expiring", "spent"} ELSE {timer}
                   ELSE IF timer = "armed" THEN {"off"}
                        ELSE IF timer \in {"expired", "expiring"} THEN {"spent"}
                        ELSE {timer}
    /\ UNCHANGED <<inputVars, taskVars, output_queue, finished_tasks, timed_out,
                   deadline_at, emitted, ds_cancel, cl_cancel>>

\* The deadline expires while the generator is suspended at a yield of the
\* timeout scope: Timeout._on_timeout cancels the task that entered the
\* scope, which is the caller's task, at whatever the caller awaits.
DeadlineAtYield ==
    /\ co_pc \in {"yield_item", "yield_done"} /\ timer = "armed"
    /\ timer' = "expired"
    /\ deadline_at' = co_pc
    /\ UNCHANGED <<inputVars, taskVars, output_queue, finished_tasks, timed_out,
                   emitted, co_pc, ds_cancel, cl_cancel>>

\* The caller's task unwinds with the CancelledError and the abandoned
\* generator is closed: GeneratorExit is thrown in at the yield, __aexit__
\* raises TimeoutError for a CancelledError only, so the handler is skipped
\* and the finally block runs.
CallerCancelled ==
    /\ co_pc \in {"yield_item", "yield_done"} /\ timer = "expired"
    /\ co_pc' = "finally"
    /\ timer' = "spent"
    /\ UNCHANGED <<inputVars, taskVars, output_queue, finished_tasks, timed_out,
                   deadline_at, emitted, ds_cancel, cl_cancel>>

\* The deadline expires while the coordinator waits at output_queue.get():
\* the CancelledError thrown in there leaves the timeout scope as TimeoutError;
\* 'except asyncio.TimeoutError' up to the first yield.
Timeout ==
    /\ co_pc = "drain" /\ timer \in {"due", "armed"}
    /\ ds_cancel' = CancelRequest(ds_pc, ds_cancel)
    /\ cl_cancel' = CancelRequest(cl_pc, cl_cancel)
    /\ emitted' = Append(emitted, ErrorFrame)
    /\ co_pc' = "timeout"
    /\ timer' = "off"
    /\ timed_out' = TRUE
    /\ deadline_at' = "get"
    /\ UNCHANGED <<inputVars, taskVars, output_queue, finished_tasks>>

\* The second yield of the timeout handler.
TimeoutDone ==
    /\ co_pc = "timeout"
    /\ emitted' = Append(emitted, DoneFrame)
    /\ co_pc' = "finally"
    /\ UNCHANGED <<inputVars, taskVars, output_queue, finished_tasks, timer, timed_out,
                   deadline_at,
                   ds_cancel, cl_cancel>>

\* The finally block from claude_task on: cancel and await it if not done.
CleanupClaude ==
    IF ~TaskDone(cl_pc)
    THEN cl_cancel' = TRUE /\ co_pc' = "await_claude"
    ELSE cl_cancel' = cl_cancel /\ co_pc' = "returned"

\* The finally block: first deepseek_task, then claude_task.
Finally ==
    /\ co_pc = "finally"
    /\ IF ~TaskDone(ds_pc)
       THEN ds_cancel' = TRUE /\ co_pc' = "await_deepseek" /\ UNCHANGED cl_cancel
       ELSE CleanupClaude /\ UNCHANGED ds_cancel
    /\ UNCHANGED <<inputVars, taskVars, output_queue, finished_tasks, timer, timed_out,
                   deadline_at, emitted>>

\* 'await task' on deepseek_task returns once the task is done.
AwaitDeepseek ==
    /\ co_pc = "await_deepseek" /\ TaskDone(ds_pc)
    /\ CleanupClaude
    /\ UNCHANGED <<inputVars, taskVars, output_queue, finished_tasks, timer, timed_out,
                   deadline_at, emitted, ds_cancel>>

\* 'await task' on claude_task returns once the task is done.
AwaitClaude ==
    /\ co_pc = "await_claude" /\ TaskDone(cl_pc)
    /\ co_pc' = "returned"
    /\ UNCHANGED <<inputVars, taskVars, output_queue, finished_tasks, timer, timed_out,
                   deadline_at, emitted, ds_cancel, cl_cancel>>

Next ==
    \/ \E chunk \in DeepseekChunks : DeepseekChunk(chunk)
    \/ DeepseekStreamEnd
    \/ DeepseekStreamRaise
    \/ DeepseekCancelled
    \/ ClaudeGetHandoff
    \/ \E chunk \in ClaudeChunks : ClaudeChunk(chunk)
    \/ ClaudeStreamEnd
    \/ ClaudeStreamRaise
    \/ ClaudeCancelled
    \/ Drain
    \/ CallerResumes
    \/ DeadlineAtYield
    \/ CallerCancelled
    \/ Timeout
    \/ TimeoutDone
    \/ Finally
    \/ AwaitDeepseek
    \/ AwaitClaude

Spec == Init /\ [][Next]_vars

\* The caller stops the generator while it is suspended inside the try block:
\* its task is cancelled at output_queue.get(), or the generator is closed at
\* a yield.  Neither is a TimeoutError, so only the finally block runs.  The
\* exception: at get() in a scope the deadline left EXPIRING with no cancel
\* request counted, Timeout.__aexit__ turns the CancelledError into
\* TimeoutError and the timeout handler runs up to its first yield.
CallerAborts ==
    /\ co_pc \in {"drain", "yield_item", "yield_done", "timeout"}
    /\ timer' = IF timer \in {"due", "armed"} THEN "off"
                ELSE IF timer = "expiring" THEN "spent"
                ELSE timer
    /\ IF co_pc = "drain" /\ timer = "expiring"
       THEN /\ ds_cancel' = CancelRequest(ds_pc, ds_cancel)
            /\ cl_cancel' = CancelRequest(cl_pc, cl_cancel)
            /\ emitted' = Append(emitted, ErrorFrame)
            /\ co_pc' = "timeout"
            /\ timed_out' = TRUE
            /\ deadline_at' = "get"
       ELSE /\ co_pc' = "finally"
            /\ UNCHANGED <<timed_out, deadline_at, emitted, ds_cancel, cl_cancel>>
    /\ UNCHANGED <<inputVars, taskVars, output_queue, finished_tasks>>

NextAbort == Next \/ CallerAborts

SpecAbort == Init /\ [][NextAbort]_vars

\* ---- the stream_chat generators on their own -----------------------------
\* SpecDecoder drives one stream_chat generator with every chunk sequence up
\* to the bounds and records what it yields; no request runs.
\* The DeepSeek lines of a request, and a delta whose text holds both markers.
DecoderDeepseekLines ==
    DeepseekLines \cup {Delta(Absent, {<<OpenMarker, CloseMarker>>})}
DecoderDeepseekChunks == UNION {[1..n -> DecoderDeepseekLines] : n \in 0..MaxLines}

\* Whether the marker branch ('else' of the model test) handles the line.
MarkerBranch(line, model) ==
    line.t = "delta" /\ model # ReasonerModel /\ Truthy(line.c)

\* DeepSeekClient.stream_chat over the lines of one chunk: a [DONE] line
\* returns, a line json.loads rejects leaves the chunk's try block.
RECURSIVE DeepseekStreamChunk(_, _, _)
DeepseekStreamChunk(lines, model, d) ==
    IF lines = << >> THEN d
    ELSE LET line == Head(lines)
             le == DeepseekLineEvents(line, model, d.is_collecting_think,
                                      d.has_yielded_content)
             d1 == [d EXCEPT
                      !.yielded = @ \o le.events,
                      !.is_collecting_think = le.ict,
                      !.has_yielded_content = le.hyc,
                      !.returned = (le.ctl = "return"),
                      !.body = IF le.ctl = "return" THEN Len(d.yielded) ELSE @,
                      !.marks = IF MarkerBranch(line, model)
                                THEN Append(@, [text |-> Value(line.c),
                                                before |-> d.is_collecting_think,
                                                after |-> le.ict])
                                ELSE @]
         IN IF le.ctl # "next" THEN d1
            ELSE DeepseekStreamChunk(Tail(lines), model, d1)

\* ClaudeClient.stream_chat over the lines of one chunk.
RECURSIVE ClaudeStreamChunk(_, _)
ClaudeStreamChunk(lines, d) ==
    IF lines = << >> THEN d
    ELSE LET le == ClaudeLineEvents(Head(lines))
             d1 == [d EXCEPT
                      !.yielded = @ \o le.events,
                      !.returned = (le.ctl = "return"),
                      !.body = IF le.ctl = "return" THEN Len(d.yielded) ELSE @]
         IN IF le.ctl # "next" THEN d1
            ELSE ClaudeStreamChunk(Tail(lines), d1)

requestVars == <<messages, timeout, output_queue, claude_queue,
                 reasoning_content, is_collecting_think, has_yielded_content,
                 ds_pc, ds_exit, ds_events, ds_cancel, ds_chunks,
                 cl_pc, cl_exit, cl_cancel, cl_chunks,
                 claude_messages, co_pc, finished_tasks, timer, timed_out, deadline_at, emitted,
                 handoff_log, handoff_reads, claude_calls, sink_log>>

InitDecoder ==
    /\ InitRequest
    /\ messages = <<Message("user", 1)>>
    /\ timeout = DefaultTimeout
    /\ dec \in {DecoderStart("deepseek"), DecoderStart("claude")}

\* 'async for chunk in self._make_request(...)' receives a chunk.
DecodeDeepseekChunk(chunk) ==
    /\ dec.client = "deepseek" /\ ~dec.returned
    /\ Len(dec.fed) < MaxChunks
    /\ dec' = DeepseekStreamChunk(chunk, deepseek_model,
                                  [dec EXCEPT !.fed = Append(@, chunk)])
    /\ UNCHANGED <<requestVars, deepseek_model>>

\* The chunk sequence is exhausted: the code after the loop.
DecodeDeepseekEnd ==
    /\ dec.client = "deepseek" /\ ~dec.returned
    /\ dec' = [dec EXCEPT
                 !.yielded = @ \o DeepseekEndEvents(dec.has_yielded_content),
                 !.returned = TRUE,
                 !.body = Len(dec.yielded)]
    /\ UNCHANGED <<requestVars, deepseek_model>>

DecodeClaudeChunk(chunk) ==
    /\ dec.client = "claude" /\ ~dec.returned
    /\ Len(dec.fed) < MaxChunks
    /\ dec' = ClaudeStreamChunk(chunk, [dec EXCEPT !.fed = Append(@, chunk)])
    /\ UNCHANGED <<requestVars, deepseek_model>>

DecodeClaudeEnd ==
    /\ dec.client = "claude" /\ ~dec.returned
    /\ dec' = [dec EXCEPT !.returned = TRUE, !.body = Len(dec.yielded)]
    /\ UNCHANGED <<requestVars, deepseek_model>>

NextDecoder ==
    \/ \E chunk \in DecoderDeepseekChunks : DecodeDeepseekChunk(chunk)
    \/ DecodeDeepseekEnd
    \/ \E chunk \in ClaudeChunks : DecodeClaudeChunk(chunk)
    \/ DecodeClaudeEnd

SpecDecoder == InitDecoder /\ [][NextDecoder]_vars

\* ---- fair scheduling -----------------------------------------------------
\* The event loop runs every callback that is ready (a task whose
\* cancellation is pending, the coordinator with an item to read or a task
\* to await), the caller goes on after every frame (it asks for the next one
\* or, cancelled, unwinds), and the deadline fires while its timer is armed,
\* wherever the coordinator is suspended then.  Nothing is assumed of the
\* providers: a transport may stay silent for ever.
Fairness ==
    /\ WF_vars(DeepseekCancelled)
    /\ WF_vars(ClaudeCancelled)
    /\ WF_vars(Drain)
    /\ WF_vars(CallerResumes \/ CallerCancelled)
    /\ WF_vars(Timeout \/ DeadlineAtYield)
    /\ WF_vars(TimeoutDone)
    /\ WF_vars(Finally)
    /\ WF_vars(AwaitDeepseek)
    /\ WF_vars(AwaitClaude)

SpecFair == Spec /\ Fairness

\* ======================== properties =====================================
Last(seq) == seq[Len(seq)]
HasFrame(type) == \E i \in 1..Len(emitted) : emitted[i].type = type
DeepseekSignaled ==
    \E i \in 1..Len(sink_log) : sink_log[i] = [writer |-> "deepseek", item |-> NoneItem]
EnvelopeWrites(writer) ==
    SelectSeq(sink_log, LAMBDA w : w.writer = writer /\ IsEnvelope(w.item))
ErrorCount == Cardinality({i \in 1..Len(emitted) : emitted[i] = ErrorFrame})
ContentEventSeen == \E i \in 1..Len(ds_events) : ds_events[i].kind = "content"

\* C1: process_claude has not called claude_client.stream_chat unless
\* process_deepseek has already put its completion marker on output_queue and
\* exactly one value (possibly empty) has been put on claude_queue.
C1_AnswerCallAfterHandoff ==
    (claude_calls > 0 \/ cl_pc = "stream") =>
        /\ DeepseekSignaled
        /\ ds_pc = "done"
        /\ Len(handoff_log) = 1

C1_Witness ==
    /\ cl_pc = "stream" /\ claude_calls = 1
    /\ Len(handoff_log) = 1 /\ handoff_log[1] # << >>

\* C2: in the frames emitted to the caller, every reasoning frame precedes
\* every answer frame.
C2_ReasoningBeforeAnswer ==
    \A i, j \in 1..Len(emitted) :
        (emitted[i].type = "answer" /\ emitted[j].type = "reasoning") => j < i

C2_Witness == HasFrame("reasoning") /\ HasFrame("answer")

\* C3: once stream_chat has delivered a content-kind event to process_deepseek,
\* whatever its text (the empty text included), the task has put the
\* accumulated reasoning on claude_queue exactly once and left its loop.
C3_HandoffOnFirstContentEvent ==
    ContentEventSeen =>
        /\ Len(handoff_log) = 1
        /\ handoff_log[1] = Join(reasoning_content)
        /\ ds_exit = "break"

\* C4: whenever process_deepseek has exited other than by cancellation, a
\* value (possibly empty) has been put on claude_queue.
C4_HandoffOnEveryExit ==
    (ds_pc = "done" /\ ds_exit # "cancelled") => Len(handoff_log) >= 1

\* C5: when the DeepSeek stream ended having produced no reasoning event, only
\* the decoder's end-of-stream (content, "") signal, claude_queue has received
\* "" (so that process_claude runs on the messages without system messages).
C5_EmptyStreamHandsOffEmpty ==
    (ds_pc = "done" /\ ds_events = <<Event("content", << >>)>>) =>
        handoff_log = << << >> >>

\* C6: per request at most one value is put on claude_queue, at most one is
\* read from it, and claude_client.stream_chat is called at most once.
C6_AtMostOneHandoff ==
    /\ Len(handoff_log) <= 1
    /\ handoff_reads <= 1
    /\ claude_calls <= 1

C6_Witness ==
    /\ ds_exit = "exception"
    /\ Len(handoff_log) = 1 /\ handoff_reads = 1 /\ claude_calls = 1

\* The output of a request that timed out: one error frame, then [DONE] as
\* the last frame.
TimeoutOutput ==
    /\ ErrorCount = 1
    /\ Len(emitted) >= 2
    /\ emitted[Len(emitted) - 1] = ErrorFrame
    /\ Last(emitted) = DoneFrame
    /\ Cardinality({i \in 1..Len(emitted) : emitted[i] = DoneFrame}) = 1

\* C7: when the deadline has expired before both tasks signalled completion
\* (while the coordinator waited for an item, or while the caller held a
\* frame of the drain loop), both tasks are cancelled (or done), and the
\* request ends with exactly one error frame immediately followed by [DONE]
\* as its last frame.
C7_TimeoutFrames ==
    /\ timed_out =>
        /\ ds_pc = "done" \/ ds_cancel
        /\ cl_pc = "done" \/ cl_cancel
        /\ IF co_pc = "timeout"
           THEN ErrorCount = 1 /\ Last(emitted) = ErrorFrame
           ELSE TimeoutOutput
    /\ (deadline_at \in {"get", "yield_item"} /\ co_pc = "returned") => TimeoutOutput

\* The same holds of a deadline that expires while the coordinator waits at
\* output_queue.get().
TimeoutFramesAtGet ==
    timed_out =>
        /\ ds_pc = "done" \/ ds_cancel
        /\ cl_pc = "done" \/ cl_cancel
        /\ IF co_pc = "timeout"
           THEN ErrorCount = 1 /\ Last(emitted) = ErrorFrame
           ELSE TimeoutOutput

\* C8: with a deadline of 0 the output is the timeout error frame followed by
\* [DONE] and nothing else, whatever the providers do.
C8_ZeroDeadlineOutput ==
    timeout = 0 =>
        IF co_pc = "drain" THEN emitted = << >>
        ELSE IF co_pc = "timeout" THEN emitted = <<ErrorFrame>>
        ELSE emitted = <<ErrorFrame, DoneFrame>>

C8_Witness ==
    /\ timeout = 0 /\ co_pc = "returned"
    /\ claude_calls = 1
    /\ EnvelopeWrites("deepseek") # << >>
    /\ EnvelopeWrites("claude") # << >>

\* C9: a task on which cancel() has been called writes no further envelope to
\* output_queue, and no envelope at all is written once the timeout handler
\* has run.
C9_NoWritesAfterCancel ==
    [][/\ (ds_cancel \/ ds_exit = "cancelled" \/ timed_out) =>
            EnvelopeWrites("deepseek")' = EnvelopeWrites("deepseek")
       /\ (cl_cancel \/ cl_exit = "cancelled" \/ timed_out) =>
            EnvelopeWrites("claude")' = EnvelopeWrites("claude")]_vars

C9_Witness ==
    /\ timed_out
    /\ ds_exit = "cancelled" /\ EnvelopeWrites("deepseek") # << >>
    /\ cl_exit = "cancelled" /\ claude_calls = 0

\* C10: when chat_completions_with_stream has returned, on whatever path,
\* both tasks are finished and no cancellation is still pending.
C10_TasksFinishedOnReturn ==
    co_pc = "returned" =>
        /\ ds_pc = "done" /\ ~ds_cancel
        /\ cl_pc = "done" /\ ~cl_cancel

C10_Witness ==
    /\ co_pc = "returned" /\ ~timed_out
    /\ ds_exit = "cancelled"
    /\ cl_exit = "cancelled"

DoneCount == Cardinality({i \in 1..Len(emitted) : emitted[i] = DoneFrame})

\* C11: under fair scheduling and a deadline that fires, every request
\* reaches the point where chat_completions_with_stream has returned, and
\* from then on the emitted frames contain [DONE] exactly once, as the last
\* frame.
C11_TerminatesWithDone ==
    <>[](/\ co_pc = "returned"
         /\ emitted # << >>
         /\ Last(emitted) = DoneFrame
         /\ DoneCount = 1)

MarkerCount(writer) ==
    Cardinality({i \in 1..Len(sink_log) :
                    sink_log[i] = [writer |-> writer, item |-> NoneItem]})

\* C12: each task has put the completion marker None on output_queue exactly
\* once when it has exited, on whatever path (normal end, break after the
\* handoff, exception, cancellation), and not at all before.
C12_OneMarkerPerTask ==
    /\ MarkerCount("deepseek") = (IF ds_pc = "done" THEN 1 ELSE 0)
    /\ MarkerCount("claude") = (IF cl_pc = "done" THEN 1 ELSE 0)
    /\ ds_pc = "done" <=> ds_exit \in {"break", "exhausted", "exception", "cancelled"}
    /\ cl_pc = "done" <=> cl_exit \in {"exhausted", "exception", "cancelled"}

\* Both tasks are cancelled before either has consumed an event.
C12_Witness ==
    /\ ds_exit = "cancelled" /\ ds_events = << >> /\ ds_chunks = 0
    /\ cl_exit = "cancelled" /\ claude_calls = 0
    /\ MarkerCount("deepseek") = 1 /\ MarkerCount("claude") = 1

\* The lines of a chunk sequence, in order.
RECURSIVE FlattenLines(_)
FlattenLines(chunks) ==
    IF chunks = << >> THEN << >> ELSE Head(chunks) \o FlattenLines(Tail(chunks))

\* The lines before the first [DONE] line.
RECURSIVE BeforeDone(_)
BeforeDone(lines) ==
    IF lines = << >> \/ Head(lines) = DoneLine THEN << >>
    ELSE <<Head(lines)>> \o BeforeDone(Tail(lines))

\* One answer event per well-formed line with a non-empty delta.content.
RECURSIVE AnswerEvents(_)
AnswerEvents(lines) ==
    IF lines = << >> THEN << >>
    ELSE (IF Head(lines).t = "delta" /\ Head(lines).c \notin {Absent, {<< >>}}
          THEN <<Event("answer", Value(Head(lines).c))>> ELSE << >>)
         \o AnswerEvents(Tail(lines))

\* C13: ClaudeClient.stream_chat yields exactly the answer events of the
\* well-formed data lines that precede [DONE], in order, whatever malformed
\* lines stand between them in the same or in other chunks; a malformed line
\* yields nothing.
C13_ClaudeSkipsMalformedLine ==
    dec.client = "claude" =>
        dec.yielded = AnswerEvents(BeforeDone(FlattenLines(dec.fed)))

C13_Witness ==
    /\ dec.client = "claude"
    /\ dec.fed = << <<BadLine, Delta(Absent, {<<"A">>})>>,
                    <<Delta(Absent, {<<"A">>}), DoneLine>> >>
    /\ dec.yielded = <<Event("answer", <<"A">>), Event("answer", <<"A">>)>>
    /\ dec.returned

\* The lines of a chunk sequence with the index of their chunk, in order.
RECURSIVE IndexedLines(_, _)
IndexedLines(chunks, n) ==
    IF chunks = << >> THEN << >>
    ELSE [i \in 1..Len(Head(chunks)) |-> [line |-> Head(chunks)[i], chunk |-> n]]
         \o IndexedLines(Tail(chunks), n + 1)

\* The indexed lines the stream consists of: those before the first [DONE].
RECURSIVE StreamLines(_)
StreamLines(ils) ==
    IF ils = << >> \/ Head(ils).line = DoneLine THEN << >>
    ELSE <<Head(ils)>> \o StreamLines(Tail(ils))

HasText(il) == il.line.t = "delta" /\ il.line.c \notin {Absent, {<< >>}}
HasMarker(il, marker) == HasText(il) /\ Contains(Value(il.line.c), marker)

\* One reasoning event per delta with text among ils[from..to].
RECURSIVE ReasoningEvents(_, _, _)
ReasoningEvents(ils, from, to) ==
    IF from > to THEN << >>
    ELSE (IF HasText(ils[from]) THEN <<Event("reasoning", Value(ils[from].line.c))>>
          ELSE << >>)
         \o ReasoningEvents(ils, from + 1, to)

TransitionEvent == Event("content", << >>)
TransitionCount(events) ==
    Cardinality({i \in 1..Len(events) : events[i] = TransitionEvent})

\* open is the first delta with the open marker, close the first delta after
\* it with the close marker, and close lies in a later chunk.
SplitRegion(ils, open, close) ==
    /\ open < close
    /\ HasMarker(ils[open], OpenMarker) /\ ~HasMarker(ils[open], CloseMarker)
    /\ \A i \in 1..(open - 1) : ~HasMarker(ils[i], OpenMarker)
    /\ HasMarker(ils[close], CloseMarker)
    /\ \A i \in (open + 1)..(close - 1) : ~HasMarker(ils[i], CloseMarker)
    /\ ils[open].chunk < ils[close].chunk

\* C14: with a model other than deepseek-reasoner, when the first delta with
\* <think> and the first later delta with </think> lie in different chunks,
\* stream_chat yields one reasoning event for every delta from the one to the
\* other, in order, then (content, ""), and that is the only (content, "")
\* yielded up to there.
C14_SplitMarkersOneRegion ==
    (dec.client = "deepseek" /\ deepseek_model # ReasonerModel) =>
        LET ils == StreamLines(IndexedLines(dec.fed, 1)) IN
        \A open, close \in 1..Len(ils) :
            SplitRegion(ils, open, close) =>
                LET region == ReasoningEvents(ils, open, close) \o <<TransitionEvent>> IN
                \E k \in 1..Len(dec.yielded) :
                    /\ k + Len(region) - 1 <= Len(dec.yielded)
                    /\ SubSeq(dec.yielded, k, k + Len(region) - 1) = region
                    /\ TransitionCount(SubSeq(dec.yielded, 1, k + Len(region) - 1)) = 1

\* The same holds of the streams without a malformed line.
SplitRegionWithoutMalformedLine ==
    (\A c \in 1..Len(dec.fed) : \A i \in 1..Len(dec.fed[c]) : dec.fed[c][i] # BadLine)
        => C14_SplitMarkersOneRegion

\* The messages whose role is not "system", in order.
RECURSIVE WithoutSystem(_)
WithoutSystem(msgs) ==
    IF msgs = << >> THEN << >>
    ELSE (IF Head(msgs).role = "system" THEN << >> ELSE <<Head(msgs)>>)
         \o WithoutSystem(Tail(msgs))

\* C15: no step changes the caller's message list, and the step that calls
\* claude_client.stream_chat passes the caller's non-system messages in
\* order, followed by the synthetic assistant message with the reasoning
\* text if and only if the value read from claude_queue is not empty; the
\* list passed holds no system message.
C15_ForwardedMessages ==
    [][/\ messages' = messages
       /\ claude_calls' # claude_calls =>
            LET reasoning == Head(claude_queue) IN
            /\ claude_messages' =
                  WithoutSystem(messages)
                  \o (IF reasoning = << >> THEN << >>
                      ELSE <<[role |-> "assistant",
                              content |-> <<"Here's my reasoning process:\n">>
                                          \o reasoning
                                          \o <<"\n\nBased on this reasoning, I will now provide my response:">>]>>)
            /\ \A i \in 1..Len(claude_messages') : claude_messages'[i].role # "system"]_vars

\* Two messages are kept, in the caller's order, before the synthetic one.
C15_Witness ==
    /\ claude_calls = 1
    /\ messages = <<Message("user", 1), Message("user", 2)>>
    /\ handoff_log = << <<"r">> >>
    /\ Len(claude_messages) = 3
    /\ claude_messages[1] = Message("user", 1)
    /\ claude_messages[2] = Message("user", 2)
    /\ claude_messages[3].role = "assistant"

\* The envelopes among the items written to output_queue, in arrival order.
RECURSIVE SinkEnvelopes(_)
SinkEnvelopes(log) ==
    IF log = << >> THEN << >>
    ELSE (IF Head(log).item.type \in {"reasoning", "answer"} THEN <<Head(log).item>>
          ELSE << >>)
         \o SinkEnvelopes(Tail(log))

\* C16: when [DONE] has been emitted and the deadline has not expired, the
\* coordinator has read two completion markers, output_queue is empty, and
\* the frames before [DONE] are the envelopes the two tasks wrote to
\* output_queue, each once, in the order they were written.
C16_DoneAfterBothMarkers ==
    (HasFrame("[DONE]") /\ ~timed_out) =>
        /\ finished_tasks = 2
        /\ MarkerCount("deepseek") = 1 /\ MarkerCount("claude") = 1
        /\ output_queue = << >>
        /\ emitted = SinkEnvelopes(sink_log) \o <<DoneFrame>>

C16_Witness ==
    /\ co_pc = "returned" /\ ~timed_out
    /\ Len(emitted) = 5
    /\ emitted[1].type = "reasoning" /\ emitted[2].type = "reasoning"
    /\ emitted[3].type = "answer" /\ emitted[4].type = "answer"
    /\ emitted[5] = DoneFrame

\* A chunk sequence without its malformed lines.
WithoutMalformed(chunks) ==
    [c \in 1..Len(chunks) |-> SelectSeq(chunks[c], LAMBDA line : line # BadLine)]

\* DeepSeekClient.stream_chat fed a chunk sequence, until it returns.
RECURSIVE FeedDeepseek(_, _, _)
FeedDeepseek(chunks, model, d) ==
    IF chunks = << >> \/ d.returned THEN d
    ELSE FeedDeepseek(Tail(chunks), model, DeepseekStreamChunk(Head(chunks), model, d))

\* The events yielded before the end of the stream was handled.
StreamBody(d) == IF d.returned THEN SubSeq(d.yielded, 1, d.body) ELSE d.yielded

\* C17: DeepSeekClient.stream_chat skips a malformed data line and nothing
\* else: from a chunk sequence it yields the events it yields from the same
\* sequence without the malformed lines, and it returns at a [DONE] line that
\* follows a malformed line.
C17_DeepseekSkipsMalformedLine ==
    dec.client = "deepseek" =>
        LET ref == FeedDeepseek(WithoutMalformed(dec.fed), deepseek_model,
                                DecoderStart("deepseek"))
        IN /\ StreamBody(dec) = StreamBody(ref)
           /\ ref.returned => dec.returned

HasContentEvent(events) == \E i \in 1..Len(events) : events[i].kind = "content"

\* C18: when DeepSeekClient.stream_chat has returned, at [DONE] or at the end
\* of the chunk sequence, it has yielded, after the events of the stream,
\* exactly one (content, "") if none of those was a content event and
\* nothing if one was; whatever follows [DONE] yields nothing.
C18_FinalContentEvent ==
    (dec.client = "deepseek" /\ dec.returned) =>
        LET during == SubSeq(dec.yielded, 1, dec.body) IN
        /\ dec.body <= Len(dec.yielded)
        /\ dec.yielded = during \o (IF HasContentEvent(during) THEN << >>
                                    ELSE <<Event("content", << >>)>>)

C18_Witness ==
    /\ dec.client = "deepseek" /\ dec.returned
    /\ deepseek_model = ReasonerModel
    /\ dec.fed = << <<Delta({<<"r">>}, Absent)>>,
                    <<DoneLine, Delta(Absent, {<<"4">>})>> >>
    /\ dec.yielded = <<Event("reasoning", <<"r">>), Event("content", << >>)>>

\* The texts of a sequence of sink writes, one after the other.
RECURSIVE ConcatTexts(_)
ConcatTexts(writes) ==
    IF writes = << >> THEN << >>
    ELSE Head(writes).item.text \o ConcatTexts(Tail(writes))

\* C19: reasoning_content holds the texts of the reasoning envelopes that
\* process_deepseek has put on output_queue, one entry per envelope in the
\* same order, and the value handed off on a content event is their
\* concatenation without separator.
C19_HandoffIsEnvelopeTexts ==
    LET writes == EnvelopeWrites("deepseek") IN
    /\ Len(reasoning_content) = Len(writes)
    /\ \A i \in 1..Len(writes) :
          /\ writes[i].item.type = "reasoning"
          /\ writes[i].item.text = reasoning_content[i]
    /\ ds_exit = "break" => handoff_log = <<ConcatTexts(writes)>>

C19_Witness ==
    /\ ds_exit = "break"
    /\ Len(EnvelopeWrites("deepseek")) = 2
    /\ handoff_log = << <<"r", "r">> >>

\* What the marker state is to be after a delta with this text.
MarkerStateAfter(text, before) ==
    IF Contains(text, CloseMarker) THEN FALSE
    ELSE IF Contains(text, OpenMarker) THEN TRUE
    ELSE before

\* C20: is_collecting_think is false before the first chunk; after a delta
\* handled by the marker branch it is false if the delta's text holds
\* </think> (also when it holds <think> as well and the state was false),
\* true if it holds <think> only, and unchanged otherwise.
C20_MarkerStateLifecycle ==
    dec.client = "deepseek" =>
        /\ dec.fed = << >> => ~dec.is_collecting_think
        /\ \A i \in 1..Len(dec.marks) :
              dec.marks[i].after = MarkerStateAfter(dec.marks[i].text, dec.marks[i].before)

\* The same holds but for a delta with both markers met while the state is
\* false.
MarkerStateLifecycleButBothMarkers ==
    dec.client = "deepseek" =>
        /\ dec.fed = << >> => ~dec.is_collecting_think
        /\ \A i \in 1..Len(dec.marks) :
              \/ dec.marks[i].after =
                    MarkerStateAfter(dec.marks[i].text, dec.marks[i].before)
              \/ /\ ~dec.marks[i].before
                 /\ Contains(dec.marks[i].text, OpenMarker)
                 /\ Contains(dec.marks[i].text, CloseMarker)

====
